---- MODULE Spec2Model ----
(***************************************************************************)
(* isthehubup: periodic health checks (IsUp, BinderBuilds) that report to  *)
(* rate-limited reporters (Email, Gitter).                                 *)
(*                                                                         *)
(* Time is counted in ticks.  A byte string is a sequence of one-element   *)
(* strings; a JSON document of the event stream is carried as one element  *)
(* of the sequence (a group of bytes that is never split).                 *)
(***************************************************************************)
EXTENDS Integers, Sequences, FiniteSets, TLC

\* ------------------------------------------------------------------ bounds
\* Ticks the clock may advance after process start.
Horizon == 2
\* Chunks the streaming fetch delivers in one attempt.
MaxChunks == 2
\* Process restarts.
MaxRestarts == 1
\* GET requests the web server handles at the same time.
MaxRequests == 2
\* Units a stream of the frame-parser specification is built from.
MaxUnits == 4
\* at_most_every of every reporter, in ticks.
Cooldown == 2
\* every of the IsUp / BinderBuilds probes, in ticks.
Every == 1

StartTime == Cooldown + 1
MaxTime == StartTime + Horizon

None == "none"
\* "No time": before every time of the model.
NoTime == 0 - 1

\* ------------------------------------------------------- byte-string helpers
NL == "\n"
DataPrefix == <<"d", "a", "t", "a", ":">>

\* JSON documents that occur in the modelled streams, as json.loads decodes
\* them.  "jNoMsg" is a JSON object without the key "message"; "jBad" is not
\* JSON at all.
JsonReady == [phase |-> "ready", message |-> "ok"]
JsonBuilding == [phase |-> "building", message |-> "step"]
JsonNoMsg == [phase |-> "ready"]

JsonError == [error |-> "JSONDecodeError"]

\* json.loads(s): the decoded document, or JsonError when it raises.
JsonLoads(s) ==
    IF s = <<"jReady">> THEN JsonReady
    ELSE IF s = <<"jBuilding">> THEN JsonBuilding
    ELSE IF s = <<"jNoMsg">> THEN JsonNoMsg
    ELSE JsonError

\* str.upper() on the phase names of the model.
Upper(s) ==
    IF s = "ready" THEN "READY"
    ELSE IF s = "building" THEN "BUILDING"
    ELSE s

\* bytes.find(b"\n\n"): 1-based index of the first delimiter, 0 when absent
\* (Python's -1).
Find(body) ==
    LET hits == {i \in 1..(Len(body) - 1) : body[i] = NL /\ body[i + 1] = NL}
    IN  IF hits = {} THEN 0 ELSE CHOOSE i \in hits : \A j \in hits : i <= j

\* str.startswith
StartsWith(s, prefix) ==
    /\ Len(s) >= Len(prefix)
    /\ SubSeq(s, 1, Len(prefix)) = prefix

\* message.split(":", 1)[1]
AfterFirstColon(s) ==
    LET cols == {i \in 1..Len(s) : s[i] = ":"}
        first == CHOOSE i \in cols : \A j \in cols : i <= j
    IN  SubSeq(s, first + 1, Len(s))

\* BinderBuilds._reset
ResetState == [body |-> <<>>, phase |-> "", log |-> <<>>, raised |-> FALSE]

\* The while loop of BinderBuilds._buffer.  raised is TRUE when the call left
\* by an exception (json.loads, or KeyError on a missing key); the fields hold
\* what the assignments executed before the exception left in them.
RECURSIVE Drain(_)
Drain(st) ==
    LET idx == Find(st.body)
    IN  IF idx = 0 THEN st
        ELSE LET message == SubSeq(st.body, 1, idx - 1)
                 rest == SubSeq(st.body, idx + 2, Len(st.body))
                 cut == [st EXCEPT !.body = rest]
             IN  IF StartsWith(message, DataPrefix)
                 THEN LET data == JsonLoads(AfterFirstColon(message))
                      IN  IF "error" \in DOMAIN data
                          THEN [cut EXCEPT !.raised = TRUE]
                          ELSE IF "message" \notin DOMAIN data
                          THEN [cut EXCEPT !.phase = data.phase, !.raised = TRUE]
                          ELSE Drain([cut EXCEPT
                                        !.phase = data.phase,
                                        !.log = st.log \o
                                            <<Upper(data.phase), " ", data.message>>])
                 ELSE Drain(cut)

\* A parser that looks for the delimiter in the new chunk only.
BufferChunkOnly(st, chunk) ==
    IF Find(chunk) = 0
    THEN [st EXCEPT !.body = st.body \o chunk, !.raised = FALSE]
    ELSE Drain([st EXCEPT !.body = st.body \o chunk, !.raised = FALSE])

\* BinderBuilds._buffer(chunk)
Buffer(st, chunk) ==
    Drain([st EXCEPT !.body = st.body \o chunk, !.raised = FALSE])

\* ------------------------------------------------------------ configuration
\* main() builds a list of checks, each with its own reporter list.  The
\* check classes take the reporters from their caller; the model runs four
\* lists.  In the first, two IsUp checks share one Email instance; in the
\* second they share one Gitter instance, so that report() calls on one
\* instance can overlap.  In the third an IsUp check has an Email and two
\* Gitter instances, which (as every Gitter instance of main()) use the one
\* state file.  In the fourth a BinderBuilds check has an Email and a Gitter
\* instance.
Probes == {"isup", "isup2", "builds"}
Reporters == {"email", "gitter1", "gitter2"}
Gitters == {"gitter1", "gitter2"}

IsBuilds(p) == p = "builds"
Url(p) ==
    IF p = "builds" THEN "https://mybinder.org/build/spec"
    ELSE IF p = "isup" THEN "https://mybinder.org"
    ELSE "https://hub.mybinder.org/hub/api"

EmailShared == [isup |-> {"email"}, isup2 |-> {"email"}, builds |-> {}]
GitterShared == [isup |-> {"gitter1"}, isup2 |-> {"gitter1"}, builds |-> {}]
IsUpOnly == [isup |-> {"email", "gitter1", "gitter2"}, isup2 |-> {}, builds |-> {}]
BuildsOnly == [isup |-> {}, isup2 |-> {}, builds |-> {"email", "gitter1"}]
Attachments == {EmailShared, GitterShared, IsUpOnly, BuildsOnly}

\* The checks list that goes with an attachment.
ChecksOf(att) == {p \in Probes : att[p] # {}}

\* Status codes a fetch with raise_error=False can return.
Codes == {200, 400, 503}
\* Exceptions a fetch can raise: an HTTPClientError (a timeout, a closed
\* stream) or any other exception (a refused connection, an exception of the
\* streaming callback).
Raises == {"HTTPClientError", "OtherError"}

\* Chunks the streaming fetch may hand to _buffer: a "building" frame, a
\* "ready" frame cut inside its delimiter, and the rest of a delimiter.
Chunks ==
    { DataPrefix \o <<"jBuilding", NL, NL>>,
      DataPrefix \o <<"jReady", NL>>,
      <<NL>> }

\* ------------------------------------------------------------------- state
VARIABLES
    now,          \* datetime.utcnow(), in ticks
    attached,     \* per check: self.reporters
    once,         \* main(once): every is None for all checks
    restarts,     \* process restarts so far
    mainpc,       \* main: "init", "waiting" (in gather(*signals)), "returned"
    pc,           \* per check: position of check()
    due,          \* per check: time the call_later timer fires
    done,         \* per check: self.done is set
    resp,         \* per check: r.code and _phase when the last fetch returned
    parse,        \* per check: _body, _phase, _log_lines
    nchunks,      \* per check: chunks delivered in this attempt
    cpc,          \* per check and reporter: position of report()
    cargs,        \* per check and reporter: arguments of a running report()
    ninv,         \* per check and reporter: report() calls in this attempt
    last,         \* per reporter: _last_time / _last_report
    lastPass,     \* per reporter: time of the latest call that passed the gate
    prevCall,     \* per reporter: time of the latest call
    file,         \* .hub_up_gitter_report
    boot,         \* the time and the file the reporters were constructed from
    lastDelivered,\* latest _last_report of a Gitter report() that completed its sends
    prevDelivered,\* lastDelivered when the process last restarted
    posted,       \* per check and reporter: chat messages a report() has posted
    running,      \* per check: check() calls that have begun and not ended
    timers,       \* per check: pending add_callback / call_later handles
    streak,       \* per check: the unbroken run of good answers since main began
    stream,       \* frame parser: the bytes of the response body
    cutAt,        \* frame parser: where the body is cut into two chunks
    whole,        \* frame parser: state of the parser fed the body at once
    split,        \* frame parser: state of the parser fed the two chunks
    fed,          \* frame parser: _buffer calls made so far
    threw,        \* frame parser: a _buffer call raised
    hpc,          \* web handler, per request: position of MainHandler.get
    hresp,        \* web handler, per request: what the fetch of hub.check() met
    logit,        \* web handler, per request: the LogIt instance
    page          \* web handler, per request: what the handler wrote

mainVars ==
    <<now, attached, once, restarts, mainpc, pc, due, done, resp, parse,
      nchunks, cpc, cargs, ninv, last, lastPass, prevCall, file, boot,
      lastDelivered, prevDelivered, posted, running, timers, streak>>
parserVars == <<stream, cutAt, whole, split, fed, threw>>
webVars == <<hpc, hresp, logit, page>>
vars == <<mainVars, parserVars, webVars>>

checks == ChecksOf(attached)

\* ---------------------------------------------------------------- rate gate
\* A gate that lets a call through only strictly after the cooldown.
GateOpenStrict(t, lastSent, w) == t - lastSent > w

\* now - self._last_report >= self.at_most_every
GateOpen(t, lastSent, w) == t - lastSent >= w

\* A gate that does not record the call.
GateStampStale(t, lastSent) == lastSent

\* self._last_report = now
GateStamp(t, lastSent) == t

\* str(self._last_report): the timestamp in decimal digits.
Str(t) == <<t \div 10, t % 10>>

\* datetime.datetime.fromisoformat(line)
FromIso(line) == line[1] * 10 + line[2]

NoFile == [exists |-> FALSE, text |-> <<>>]
FileWith(text) == [exists |-> TRUE, text |-> text]

\* A constructor that never reads the state file.
LoadStateIgnoreFile(f, t, w) == t - w

\* Gitter.__init__: _last_report is now - at_most_every, replaced by the
\* content of the state file when the file exists and is not empty.
LoadState(f, t, w) ==
    IF f.exists /\ f.text # <<>> THEN FromIso(f.text) ELSE t - w

\* Email.__init__ / Gitter.__init__: the reporter's last-report time.
InitialLast(r, f, t) ==
    IF r \in Gitters THEN LoadState(f, t, Cooldown) ELSE t - Cooldown

\* ------------------------------------------------------------ probe verdicts
\* A check that lets 400 through.
IsFailureAbove(code) == code > 400

\* A check that takes every answer from 200 on for a failure.
IsFailureFrom200(code) == code >= 200

\* IsUp.check: r.code >= 400
IsFailure(code) == code >= 400

\* A check that needs both conditions to fail.
BuildFailedBoth(code, phase) == code >= 400 /\ phase # "ready"

\* BinderBuilds.check: r.code >= 400 or self._phase != "ready"
BuildFailed(code, phase) == code >= 400 \/ phase # "ready"

\* The decimal digits of a three-digit status code, as f"{r.code}" prints it.
Digit(d) == <<"0", "1", "2", "3", "4", "5", "6", "7", "8", "9">>[d + 1]
CodeText(code) ==
    <<Digit(code \div 100), Digit((code \div 10) % 10), Digit(code % 10)>>

\* A message that leaves the status out.
DownMessageNoCode(url, code) == <<url, " returned an error.">>

\* f"{self.url} returned a {r.code}."
DownMessage(url, code) == <<url, " returned a ">> \o CodeText(code) \o <<".">>

\* except HTTPClientError (BinderBuilds.check); IsUp.check has no handler.
Caught(p, exc) == IsBuilds(p) /\ exc = "HTTPClientError"

\* A runner that returns when any check is done.
AnyDone == \E p \in checks : done[p]

\* await asyncio.gather(*signals): every check.done is set
AllDone == \A p \in checks : done[p]

NoResp == [code |-> NoTime, phase |-> ""]
NoArgs == <<>>

\* A gather that waits for the report() calls to begin, not to end.
Begun == {"sent", "skipped", "lookup", "send1", "send2", "post"}

\* report() has returned: after its sends, or at once because the gate was
\* closed.
Returned == {"sent", "skipped"}
\* report() is suspended in a lookup or a send.
InFlight == {"lookup", "send1", "send2", "post"}

\* Gitter.report: the two chat messages, in the order the code posts them.
Question == "question"
Literal == "literal"

\* A timer that stays armed after it fired (a repeating timer).
TimerKept(n) == n

\* add_callback / call_later: the handle is gone once its callback runs.
TimerFired(n) == n - 1

\* The run of good answers of a check since main began: check() calls begun,
\* fetches that returned a good answer (status < 400, and for a build the
\* phase "ready"), and report() calls made, as long as every answer was good.
NewStreak == [started |-> 0, good |-> 0, invoked |-> 0, broken |-> FALSE]
\* Some fetch raised or returned another answer.
StreakBroken == [started |-> 0, good |-> 0, invoked |-> 0, broken |-> TRUE]

\* ------------------------------------------------------------- construction
\* State files a process may find at its first start: none, an empty one, a
\* timestamp a full cooldown old, a timestamp within the cooldown.  The file
\* is varied for the list with the shared Gitter instance.
InitialFiles(att) ==
    IF att = GitterShared
    THEN { NoFile, FileWith(<<>>),
           FileWith(Str(StartTime - Cooldown)),
           FileWith(Str(StartTime - Cooldown + 1)) }
    ELSE {NoFile}

ParserIdle ==
    /\ stream = <<>>
    /\ cutAt = 0
    /\ whole = ResetState
    /\ split = ResetState
    /\ fed = 0
    /\ threw = FALSE

\* webserver.py: the requests, the target of MainHandler.get, a LogIt as its
\* constructor leaves it, and a fetch that has met nothing yet.
Requests == 1..MaxRequests
WebTarget == "https://mybinder.org/"
NoLog == [url |-> None, message |-> <<>>]
NoAnswer == [code |-> NoTime, network |-> FALSE]

WebIdle ==
    /\ hpc = [q \in Requests |-> "idle"]
    /\ hresp = [q \in Requests |-> NoAnswer]
    /\ logit = [q \in Requests |-> NoLog]
    /\ page = [q \in Requests |-> None]

\* The objects as the constructors leave them.
Constructed ==
    /\ mainpc = "init"
    /\ pc = [p \in Probes |-> "new"]
    /\ due = [p \in Probes |-> NoTime]
    /\ done = [p \in Probes |-> FALSE]
    /\ resp = [p \in Probes |-> NoResp]
    /\ parse = [p \in Probes |-> ResetState]
    /\ nchunks = [p \in Probes |-> 0]
    /\ cpc = [p \in Probes |-> [r \in Reporters |-> None]]
    /\ cargs = [p \in Probes |-> [r \in Reporters |-> NoArgs]]
    /\ ninv = [p \in Probes |-> [r \in Reporters |-> 0]]
    /\ last = [r \in Reporters |-> InitialLast(r, file, now)]
    /\ lastPass = [r \in Reporters |-> NoTime]
    /\ prevCall = [r \in Reporters |-> NoTime]
    /\ boot = [time |-> now, file |-> file]
    /\ posted = [p \in Probes |-> [r \in Reporters |-> <<>>]]
    /\ running = [p \in Probes |-> 0]
    /\ timers = [p \in Probes |-> 0]
    /\ streak = [p \in Probes |-> NewStreak]

Init ==
    /\ now = StartTime
    /\ attached \in Attachments
    /\ once \in BOOLEAN
    /\ restarts = 0
    /\ file \in InitialFiles(attached)
    /\ Constructed
    /\ lastDelivered = NoTime
    /\ prevDelivered = NoTime
    /\ ParserIdle
    /\ WebIdle

\* ------------------------------------------------------------------ actions
\* main: add_callback(check.check) for every check, then wait for the signals.
MainStart ==
    /\ mainpc = "init"
    /\ mainpc' = "waiting"
    /\ pc' = [p \in Probes |-> IF p \in checks THEN "queued" ELSE pc[p]]
    /\ timers' = [p \in Probes |-> IF p \in checks THEN timers[p] + 1 ELSE timers[p]]
    /\ UNCHANGED <<now, attached, once, restarts, due, done, resp, parse,
                   nchunks, cpc, cargs, ninv, last, lastPass, prevCall, file,
                   boot, lastDelivered, prevDelivered, posted, running, streak,
                   parserVars, webVars>>

\* main: gather(*signals) returns; run_sync stops the loop.
MainReturn ==
    /\ mainpc = "waiting"
    /\ AllDone
    /\ mainpc' = "returned"
    /\ UNCHANGED <<now, attached, once, restarts, pc, due, done, resp, parse,
                   nchunks, cpc, cargs, ninv, last, lastPass, prevCall, file,
                   boot, lastDelivered, prevDelivered, posted, running, timers,
                   streak, parserVars, webVars>>

\* The clock advances.
Tick ==
    /\ now < MaxTime
    /\ now' = now + 1
    /\ UNCHANGED <<attached, once, restarts, mainpc, pc, due, done, resp,
                   parse, nchunks, cpc, cargs, ninv, last, lastPass, prevCall,
                   file, boot, lastDelivered, prevDelivered, posted, running,
                   timers, streak, parserVars, webVars>>

\* The process is started again: every object is constructed anew, the state
\* file is what the previous process left.  (Only a Gitter reporter keeps
\* anything across a restart.)
Restart ==
    /\ restarts < MaxRestarts
    /\ \E p \in checks : attached[p] \cap Gitters # {}
    /\ restarts' = restarts + 1
    /\ mainpc' = "init"
    /\ pc' = [p \in Probes |-> "new"]
    /\ due' = [p \in Probes |-> NoTime]
    /\ done' = [p \in Probes |-> FALSE]
    /\ resp' = [p \in Probes |-> NoResp]
    /\ parse' = [p \in Probes |-> ResetState]
    /\ nchunks' = [p \in Probes |-> 0]
    /\ cpc' = [p \in Probes |-> [r \in Reporters |-> None]]
    /\ cargs' = [p \in Probes |-> [r \in Reporters |-> NoArgs]]
    /\ ninv' = [p \in Probes |-> [r \in Reporters |-> 0]]
    /\ last' = [r \in Reporters |-> InitialLast(r, file, now)]
    /\ lastPass' = [r \in Reporters |-> NoTime]
    /\ prevCall' = [r \in Reporters |-> NoTime]
    /\ boot' = [time |-> now, file |-> file]
    /\ prevDelivered' = lastDelivered
    /\ posted' = [p \in Probes |-> [r \in Reporters |-> <<>>]]
    /\ running' = [p \in Probes |-> 0]
    /\ timers' = [p \in Probes |-> 0]
    /\ streak' = [p \in Probes |-> NewStreak]
    /\ UNCHANGED <<now, attached, once, file, lastDelivered, parserVars, webVars>>

\* check() begins: the queued callback runs, or the call_later timer fires.
\* The fetch is issued.
Start(p) ==
    /\ mainpc = "waiting"
    /\ \/ pc[p] = "queued"
       \/ pc[p] = "armed" /\ now >= due[p]
    /\ pc' = [pc EXCEPT ![p] = "fetch"]
    /\ resp' = [resp EXCEPT ![p] = NoResp]
    /\ nchunks' = [nchunks EXCEPT ![p] = 0]
    /\ cpc' = [cpc EXCEPT ![p] = [r \in Reporters |-> None]]
    /\ cargs' = [cargs EXCEPT ![p] = [r \in Reporters |-> NoArgs]]
    /\ ninv' = [ninv EXCEPT ![p] = [r \in Reporters |-> 0]]
    /\ posted' = [posted EXCEPT ![p] = [r \in Reporters |-> <<>>]]
    /\ timers' = [timers EXCEPT ![p] = TimerFired(@)]
    /\ running' = [running EXCEPT ![p] = @ + 1]
    /\ streak' = [streak EXCEPT ![p] =
                    IF @.broken THEN @ ELSE [@ EXCEPT !.started = @ + 1]]
    /\ UNCHANGED <<now, attached, once, restarts, mainpc, due, done, parse,
                   last, lastPass, prevCall, file, boot, lastDelivered,
                   prevDelivered, parserVars, webVars>>

\* streaming_callback=self._buffer: one chunk of the body arrives.
DeliverChunk(p, chunk) ==
    /\ mainpc = "waiting"
    /\ IsBuilds(p)
    /\ pc[p] = "fetch"
    /\ ~parse[p].raised
    /\ nchunks[p] < MaxChunks
    /\ parse' = [parse EXCEPT ![p] = Buffer(parse[p], chunk)]
    /\ nchunks' = [nchunks EXCEPT ![p] = nchunks[p] + 1]
    /\ UNCHANGED <<now, attached, once, restarts, mainpc, pc, due, done, resp,
                   cpc, cargs, ninv, last, lastPass, prevCall, file, boot,
                   lastDelivered, prevDelivered, posted, running, timers,
                   streak, parserVars, webVars>>

\* An end of check() that leaves _reset() out.
FinishedNoReset(p) ==
    /\ parse' = parse
    /\ IF once
       THEN /\ done' = [done EXCEPT ![p] = TRUE]
            /\ pc' = [pc EXCEPT ![p] = "stopped"]
            /\ UNCHANGED <<due, timers>>
       ELSE /\ due' = [due EXCEPT ![p] = now + Every]
            /\ timers' = [timers EXCEPT ![p] = @ + 1]
            /\ pc' = [pc EXCEPT ![p] = "armed"]
            /\ done' = done
    /\ running' = [running EXCEPT ![p] = @ - 1]

\* The end of check(): call_later(self.every, self.check), or self.done.set().
\* BinderBuilds calls _reset() first.
Finished(p) ==
    /\ parse' = [parse EXCEPT ![p] = ResetState]
    /\ IF once
       THEN /\ done' = [done EXCEPT ![p] = TRUE]
            /\ pc' = [pc EXCEPT ![p] = "stopped"]
            /\ UNCHANGED <<due, timers>>
       ELSE /\ due' = [due EXCEPT ![p] = now + Every]
            /\ timers' = [timers EXCEPT ![p] = @ + 1]
            /\ pc' = [pc EXCEPT ![p] = "armed"]
            /\ done' = done
    /\ running' = [running EXCEPT ![p] = @ - 1]

\* check() is left by an exception: nothing after the raising await runs.
Crashed(p) ==
    /\ pc' = [pc EXCEPT ![p] = "crashed"]
    /\ running' = [running EXCEPT ![p] = @ - 1]
    /\ UNCHANGED <<due, done, parse, timers>>

\* The reports list and gather(*reports): one report() per attached reporter.
FanOut(p, message) ==
    /\ cpc' = [cpc EXCEPT ![p] =
                 [r \in Reporters |-> IF r \in attached[p] THEN "created" ELSE None]]
    /\ cargs' = [cargs EXCEPT ![p] =
                   [r \in Reporters |->
                      IF r \in attached[p] THEN <<Url(p), message>> ELSE NoArgs]]
    /\ ninv' = [ninv EXCEPT ![p] =
                  [r \in Reporters |->
                     IF r \in attached[p] THEN ninv[p][r] + 1 ELSE ninv[p][r]]]
    /\ pc' = [pc EXCEPT ![p] = "gather"]
    /\ UNCHANGED <<due, done, parse, running, timers>>

\* The fetch returns a response.
FetchReturn(p, code) ==
    /\ mainpc = "waiting"
    /\ pc[p] = "fetch"
    /\ ~parse[p].raised
    /\ resp' = [resp EXCEPT ![p] = [code |-> code, phase |-> parse[p].phase]]
    /\ IF IsBuilds(p)
       THEN IF BuildFailed(code, parse[p].phase)
            THEN FanOut(p, parse[p].log)
            ELSE Finished(p) /\ UNCHANGED <<cpc, cargs, ninv>>
       ELSE IF IsFailure(code)
            THEN FanOut(p, DownMessage(Url(p), code))
            ELSE Finished(p) /\ UNCHANGED <<cpc, cargs, ninv>>
    /\ streak' = [streak EXCEPT ![p] =
                    IF @.broken THEN @
                    ELSE IF code < 400 /\ (IsBuilds(p) => parse[p].phase = "ready")
                    THEN [@ EXCEPT
                            !.good = @ + 1,
                            !.invoked = @ + Cardinality(
                                {r \in Reporters : ninv'[p][r] # ninv[p][r]})]
                    ELSE StreakBroken]
    /\ UNCHANGED <<now, attached, once, restarts, mainpc, nchunks, last,
                   lastPass, prevCall, file, boot, lastDelivered,
                   prevDelivered, posted, parserVars, webVars>>

\* The fetch raises.
FetchRaise(p, exc) ==
    /\ mainpc = "waiting"
    /\ pc[p] = "fetch"
    /\ IF Caught(p, exc) THEN Finished(p) ELSE Crashed(p)
    /\ streak' = [streak EXCEPT ![p] = StreakBroken]
    /\ UNCHANGED <<now, attached, once, restarts, mainpc, resp, nchunks, cpc,
                   cargs, ninv, last, lastPass, prevCall, file, boot,
                   lastDelivered, prevDelivered, posted, parserVars, webVars>>

\* report() runs to its first await: the gate check and, when it passes,
\* the update of the last-report time.  With the gate closed it returns.
ReportBegin(p, r) ==
    /\ mainpc = "waiting"
    /\ cpc[p][r] = "created"
    /\ LET open == GateOpen(now, last[r], Cooldown)
       IN  /\ last' = [last EXCEPT ![r] = IF open THEN GateStamp(now, @) ELSE @]
           /\ lastPass' = [lastPass EXCEPT ![r] = IF open THEN now ELSE @]
           /\ cpc' = [cpc EXCEPT ![p][r] =
                        IF ~open THEN "skipped"
                        ELSE IF r \in Gitters THEN "lookup" ELSE "post"]
           /\ cargs' = [cargs EXCEPT ![p][r] = IF open THEN @ ELSE NoArgs]
    /\ prevCall' = [prevCall EXCEPT ![r] = now]
    /\ UNCHANGED <<now, attached, once, restarts, mainpc, pc, due, done, resp,
                   parse, nchunks, ninv, file, boot, lastDelivered,
                   prevDelivered, posted, running, timers, streak, parserVars,
                   webVars>>

\* Email.report: the POST to the mail endpoint returns or raises.
EmailPost(p, r, ok) ==
    /\ mainpc = "waiting"
    /\ cpc[p][r] = "post"
    /\ cpc' = [cpc EXCEPT ![p][r] = IF ok THEN "sent" ELSE "raised"]
    /\ cargs' = [cargs EXCEPT ![p][r] = NoArgs]
    /\ UNCHANGED <<now, attached, once, restarts, mainpc, pc, due, done, resp,
                   parse, nchunks, ninv, last, lastPass, prevCall, file, boot,
                   lastDelivered, prevDelivered, posted, running, timers, streak,
                   parserVars, webVars>>

\* Gitter.get_channel_id returns the room id, or raises (the fetch fails, or
\* no room has the name).
GetChannelId(p, r, ok) ==
    /\ mainpc = "waiting"
    /\ cpc[p][r] = "lookup"
    /\ cpc' = [cpc EXCEPT ![p][r] = IF ok THEN "send1" ELSE "raised"]
    /\ cargs' = [cargs EXCEPT ![p][r] = IF ok THEN @ ELSE NoArgs]
    /\ UNCHANGED <<now, attached, once, restarts, mainpc, pc, due, done, resp,
                   parse, nchunks, ninv, last, lastPass, prevCall, file, boot,
                   lastDelivered, prevDelivered, posted, running, timers, streak,
                   parserVars, webVars>>

\* Gitter.report: the first chat message ("is <url> down?") is posted.
SendFirst(p, r, ok) ==
    /\ mainpc = "waiting"
    /\ cpc[p][r] = "send1"
    /\ cpc' = [cpc EXCEPT ![p][r] = IF ok THEN "send2" ELSE "raised"]
    /\ cargs' = [cargs EXCEPT ![p][r] = IF ok THEN @ ELSE NoArgs]
    /\ posted' = [posted EXCEPT ![p][r] = IF ok THEN Append(@, Question) ELSE @]
    /\ UNCHANGED <<now, attached, once, restarts, mainpc, pc, due, done, resp,
                   parse, nchunks, ninv, last, lastPass, prevCall, file, boot,
                   lastDelivered, prevDelivered, running, timers, streak,
                   parserVars, webVars>>

\* Gitter.report: the second chat message (the message itself) is posted;
\* then the state file is rewritten with str(self._last_report).
SendSecond(p, r, ok) ==
    /\ mainpc = "waiting"
    /\ cpc[p][r] = "send2"
    /\ cpc' = [cpc EXCEPT ![p][r] = IF ok THEN "sent" ELSE "raised"]
    /\ cargs' = [cargs EXCEPT ![p][r] = NoArgs]
    /\ file' = IF ok THEN FileWith(Str(last[r])) ELSE file
    /\ lastDelivered' =
          IF ok /\ last[r] > lastDelivered THEN last[r] ELSE lastDelivered
    /\ posted' = [posted EXCEPT ![p][r] = IF ok THEN Append(@, Literal) ELSE @]
    /\ UNCHANGED <<now, attached, once, restarts, mainpc, pc, due, done, resp,
                   parse, nchunks, ninv, last, lastPass, prevCall, boot,
                   prevDelivered, running, timers, streak, parserVars, webVars>>

\* gather(*reports) returns: every report() has returned.
GatherDone(p) ==
    /\ mainpc = "waiting"
    /\ pc[p] = "gather"
    /\ \A r \in attached[p] : cpc[p][r] \in Returned
    /\ Finished(p)
    /\ UNCHANGED <<now, attached, once, restarts, mainpc, resp, nchunks, cpc,
                   cargs, ninv, last, lastPass, prevCall, file, boot,
                   lastDelivered, prevDelivered, posted, streak, parserVars,
                   webVars>>

\* gather(*reports) raises the exception of a report(); the other report()
\* calls go on.
GatherRaise(p) ==
    /\ mainpc = "waiting"
    /\ pc[p] = "gather"
    /\ \E r \in attached[p] : cpc[p][r] = "raised"
    /\ Crashed(p)
    /\ UNCHANGED <<now, attached, once, restarts, mainpc, resp, nchunks, cpc,
                   cargs, ninv, last, lastPass, prevCall, file, boot,
                   lastDelivered, prevDelivered, posted, streak, parserVars,
                   webVars>>

Next ==
    \/ MainStart
    \/ MainReturn
    \/ Tick
    \/ Restart
    \/ \E p \in Probes : Start(p)
    \/ \E p \in Probes, chunk \in Chunks : DeliverChunk(p, chunk)
    \/ \E p \in Probes, code \in Codes : FetchReturn(p, code)
    \/ \E p \in Probes, exc \in Raises : FetchRaise(p, exc)
    \/ \E p \in Probes, r \in Reporters : ReportBegin(p, r)
    \/ \E p \in Probes, r \in Reporters, ok \in BOOLEAN : EmailPost(p, r, ok)
    \/ \E p \in Probes, r \in Reporters, ok \in BOOLEAN : GetChannelId(p, r, ok)
    \/ \E p \in Probes, r \in Reporters, ok \in BOOLEAN : SendFirst(p, r, ok)
    \/ \E p \in Probes, r \in Reporters, ok \in BOOLEAN : SendSecond(p, r, ok)
    \/ \E p \in Probes : GatherDone(p)
    \/ \E p \in Probes : GatherRaise(p)

Spec == Init /\ [][Next]_vars

\* ------------------------------------------------- frame-parser specification
\* The parser alone: a body is fed to one parser in a single _buffer call and
\* to another in two calls, cut at any offset.
Units ==
    { DataPrefix \o <<"jReady">>,
      DataPrefix \o <<"jBuilding">>,
      DataPrefix \o <<"jNoMsg">>,
      DataPrefix \o <<"jBad">>,
      <<"x">>,
      <<NL>>,
      <<NL, NL>> }

RECURSIVE Join(_)
Join(us) == IF us = <<>> THEN <<>> ELSE Head(us) \o Join(Tail(us))

Streams == UNION {{Join(us) : us \in [1..n -> Units]} : n \in 0..MaxUnits}

InitParser ==
    /\ stream \in Streams
    /\ cutAt \in 0..Len(stream)
    /\ whole = ResetState
    /\ split = ResetState
    /\ fed = 0
    /\ threw = FALSE
    /\ now = StartTime
    /\ attached = EmailShared
    /\ once = TRUE
    /\ restarts = 0
    /\ file = NoFile
    /\ Constructed
    /\ lastDelivered = NoTime
    /\ prevDelivered = NoTime
    /\ WebIdle

\* self._buffer(S)
FeedWhole ==
    /\ fed = 0
    /\ whole' = Buffer(whole, stream)
    /\ threw' = (threw \/ whole'.raised)
    /\ fed' = 1
    /\ UNCHANGED <<stream, cutAt, split, mainVars, webVars>>

\* self._buffer(S[:k])
FeedFirst ==
    /\ fed = 1
    /\ split' = Buffer(split, SubSeq(stream, 1, cutAt))
    /\ threw' = (threw \/ split'.raised)
    /\ fed' = 2
    /\ UNCHANGED <<stream, cutAt, whole, mainVars, webVars>>

\* self._buffer(S[k:])
FeedSecond ==
    /\ fed = 2
    /\ split' = Buffer(split, SubSeq(stream, cutAt + 1, Len(stream)))
    /\ threw' = (threw \/ split'.raised)
    /\ fed' = 3
    /\ UNCHANGED <<stream, cutAt, whole, mainVars, webVars>>

NextParser == FeedWhole \/ FeedFirst \/ FeedSecond

SpecParser == InitParser /\ [][NextParser]_vars

\* ------------------------------------------------- web-handler specification
\* webserver.py: MainHandler.get builds a LogIt and an IsUp(target, [logit],
\* every=None), awaits hub.check() and writes the page from logit.url.  The
\* server handles requests concurrently; each has its own objects.
InitWeb ==
    /\ WebIdle
    /\ ParserIdle
    /\ now = StartTime
    /\ attached = EmailShared
    /\ once = TRUE
    /\ restarts = 0
    /\ file = NoFile
    /\ Constructed
    /\ lastDelivered = NoTime
    /\ prevDelivered = NoTime

\* get(): logit = LogIt(); hub = IsUp(...); hub.check() issues its fetch.
WebGet(q) ==
    /\ hpc[q] = "idle"
    /\ logit' = [logit EXCEPT ![q] = NoLog]
    /\ hpc' = [hpc EXCEPT ![q] = "fetch"]
    /\ UNCHANGED <<hresp, page, mainVars, parserVars>>

\* The target answers: the fetch returns the response; check() goes on to
\* gather(*reports) when r.code >= 400, and to done.set() otherwise.
WebFetchReturn(q, code) ==
    /\ hpc[q] = "fetch"
    /\ hresp' = [hresp EXCEPT ![q] = [code |-> code, network |-> FALSE]]
    /\ hpc' = [hpc EXCEPT ![q] = IF IsFailure(code) THEN "gather" ELSE "checked"]
    /\ UNCHANGED <<logit, page, mainVars, parserVars>>

\* The target cannot be reached (refused connection, DNS failure, timeout).
\* With raise_error=False tornado before 6.0 returns a response with the
\* code 599; from 6.0 on the fetch raises, the exception leaves check() and
\* get(), and the server answers with its error page.
WebFetchFails(q, raises) ==
    /\ hpc[q] = "fetch"
    /\ IF raises
       THEN /\ hresp' = [hresp EXCEPT ![q] = [code |-> NoTime, network |-> TRUE]]
            /\ hpc' = [hpc EXCEPT ![q] = "finished"]
            /\ page' = [page EXCEPT ![q] = "error"]
       ELSE /\ hresp' = [hresp EXCEPT ![q] = [code |-> 599, network |-> TRUE]]
            /\ hpc' = [hpc EXCEPT ![q] =
                         IF IsFailure(599) THEN "gather" ELSE "checked"]
            /\ page' = page
    /\ UNCHANGED <<logit, mainVars, parserVars>>

\* LogIt.report(url, message) runs; gather returns and check() sets done.
WebReport(q) ==
    /\ hpc[q] = "gather"
    /\ logit' = [logit EXCEPT ![q] =
                   [url |-> WebTarget,
                    message |-> DownMessage(WebTarget, hresp[q].code)]]
    /\ hpc' = [hpc EXCEPT ![q] = "checked"]
    /\ UNCHANGED <<hresp, page, mainVars, parserVars>>

\* get() after the await: "All is good" when logit.url is None, else
\* "Something happened" and the message.
WebRender(q) ==
    /\ hpc[q] = "checked"
    /\ page' = [page EXCEPT ![q] = IF logit[q].url = None THEN "good" ELSE "bad"]
    /\ hpc' = [hpc EXCEPT ![q] = "finished"]
    /\ UNCHANGED <<hresp, logit, mainVars, parserVars>>

NextWeb ==
    \/ \E q \in Requests : WebGet(q)
    \/ \E q \in Requests, code \in Codes : WebFetchReturn(q, code)
    \/ \E q \in Requests, raises \in BOOLEAN : WebFetchFails(q, raises)
    \/ \E q \in Requests : WebReport(q)
    \/ \E q \in Requests : WebRender(q)

SpecWeb == InitWeb /\ [][NextWeb]_vars

\* ==================================================================== claims
\* A step in which report() of reporter r, called by check p, makes its gate
\* check, and whether it passes the gate there (goes on to its lookup or send).
GateStep(p, r) == cpc[p][r] = "created" /\ cpc'[p][r] \in {"lookup", "post", "skipped"}
PassStep(p, r) == cpc[p][r] = "created" /\ cpc'[p][r] \in {"lookup", "post"}

\* C1: on one Email or Gitter instance, however the report() calls
\* interleave, a call passes the gate only if no earlier call on that
\* instance passed it less than a cooldown before: at most one notification
\* per cooldown window.
C1_AtMostOnePerWindow ==
    [][\A p \in Probes, r \in Reporters :
         PassStep(p, r) =>
            \/ lastPass[r] = NoTime
            \/ now - lastPass[r] >= Cooldown]_vars

\* C1 witness: a call that passed the gate is suspended in its lookup or send
\* while a later call on the same instance, by the other check, was dropped.
C1_Witness ==
    \E r \in Reporters, p \in Probes, q \in Probes :
        /\ p # q
        /\ cpc[p][r] \in InFlight
        /\ cpc[q][r] = "skipped"
        /\ lastPass[r] # NoTime
        /\ prevCall[r] > lastPass[r]

\* The reporter was constructed without durable state.
NoDurable(r) == r \notin Gitters \/ ~boot.file.exists \/ boot.file.text = <<>>

\* C2: a report() call at time now goes on to send exactly when
\* now - lastSent >= cooldown at the call; the first call after a construction
\* without durable state sends; a call a cooldown or more after the previous
\* call sends ("sends" is passing the gate and starting the delivery).
C2_SendsIffCooldownOver ==
    [][\A p \in Probes, r \in Reporters :
         GateStep(p, r) =>
            /\ PassStep(p, r) <=> (now - last[r] >= Cooldown)
            /\ (prevCall[r] = NoTime /\ NoDurable(r)) => PassStep(p, r)
            /\ (prevCall[r] # NoTime /\ now - prevCall[r] >= Cooldown)
                  => PassStep(p, r)]_vars

\* C2 witness: one instance has sent for one check and, a cooldown or more
\* later, passed the gate for the other.
C2_Witness ==
    \E r \in Reporters, p \in Probes, q \in Probes :
        /\ p # q
        /\ cpc[p][r] = "sent"
        /\ cpc[q][r] \in InFlight
        /\ lastPass[r] - boot.time >= Cooldown

\* check() of p has been left (it returned, or an exception ended it).
CheckLeft(p) == pc[p] \in {"armed", "stopped", "crashed"}

\* C3: in periodic mode every check() attempt, whatever its outcome, ends
\* with the timer armed for the next check.
C3_EveryAttemptRearms ==
    ~once => \A p \in checks : CheckLeft(p) => pc[p] = "armed"

\* C4: in one-shot mode every check() attempt, whatever its outcome, ends
\* with the completion signal set.
C4_EveryAttemptSignals ==
    once => \A p \in checks : CheckLeft(p) => done[p]

\* C5: main has returned only if the done signal of every check is set.
C5_ReturnAfterAllDone ==
    mainpc = "returned" => \A p \in checks : done[p]

\* C5 witness: main has returned from a list of two checks.
C5_Witness ==
    /\ mainpc = "returned"
    /\ Cardinality(checks) = 2

\* C6: an IsUp check whose fetch returned a status < 400 calls no reporter;
\* with a status >= 400 it calls report() of every attached reporter exactly
\* once, with the url as subject and a message that contains the status.
C6_IsUpReports ==
    \A p \in checks :
        (~IsBuilds(p) /\ resp[p].code # NoTime) =>
            /\ resp[p].code < 400 => \A r \in Reporters : ninv[p][r] = 0
            /\ resp[p].code >= 400 =>
                  \A r \in Reporters :
                     /\ ninv[p][r] = (IF r \in attached[p] THEN 1 ELSE 0)
                     /\ cpc[p][r] = "created" =>
                           /\ cargs[p][r][1] = Url(p)
                           /\ \E i \in 1..(Len(cargs[p][r][2]) - 2) :
                                 SubSeq(cargs[p][r][2], i, i + 2) =
                                    <<Digit(resp[p].code \div 100),
                                      Digit((resp[p].code \div 10) % 10),
                                      Digit(resp[p].code % 10)>>

\* C6 witness: an IsUp check with three reporters got a 503 and has called
\* them.
C6_Witness ==
    \E p \in checks :
        /\ ~IsBuilds(p)
        /\ resp[p].code = 503
        /\ Cardinality(attached[p]) = 3
        /\ \A r \in attached[p] : cpc[p][r] = "created"

\* C7: a BinderBuilds attempt whose fetch returned is a success (no report,
\* check() goes on to its end) exactly when the status is < 400 and the last
\* phase is "ready"; otherwise report(url, log) is called on every attached
\* reporter.
C7_BuildVerdict ==
    \A p \in checks :
        (IsBuilds(p) /\ resp[p].code # NoTime) =>
            IF resp[p].code < 400 /\ resp[p].phase = "ready"
            THEN /\ \A r \in Reporters : ninv[p][r] = 0
                 /\ pc[p] \in {"armed", "stopped"}
            ELSE \A r \in Reporters :
                    /\ ninv[p][r] = (IF r \in attached[p] THEN 1 ELSE 0)
                    /\ cpc[p][r] = "created" =>
                          cargs[p][r] = <<Url(p), parse[p].log>>

\* C7 witness: a build that answered 200 but stopped in phase "building" is
\* reported with its log.
C7_Witness ==
    \E p \in checks :
        /\ IsBuilds(p)
        /\ resp[p].code = 200
        /\ resp[p].phase = "building"
        /\ \A r \in attached[p] : cpc[p][r] = "created"
        /\ parse[p].log # <<>>

\* C7 second case: a build that answered 200 in phase "ready" went on without
\* a report.
C7_SuccessReached ==
    \E p \in checks :
        /\ IsBuilds(p)
        /\ resp[p].code = 200
        /\ resp[p].phase = "ready"

SameResult ==
    /\ whole.phase = split.phase
    /\ whole.log = split.log
    /\ whole.body = split.body

C9_RestoredGate ==
    [][\A p \in Probes, r \in Gitters :
         (GateStep(p, r) /\ prevCall[r] = NoTime) =>
            IF boot.file.exists /\ boot.file.text # <<>>
            THEN /\ boot.time - FromIso(boot.file.text) >= Cooldown => PassStep(p, r)
                 /\ now - FromIso(boot.file.text) >= Cooldown => PassStep(p, r)
                 /\ now - FromIso(boot.file.text) < Cooldown => ~PassStep(p, r)
            ELSE PassStep(p, r)]_vars

\* C9 witness: after a restart, the first report() of a Gitter instance was
\* dropped because of the timestamp the previous process left in the file.
C9_Witness ==
    \E p \in Probes, r \in Gitters :
        /\ restarts > 0
        /\ boot.file.exists
        /\ cpc[p][r] = "skipped"
        /\ lastPass[r] = NoTime

\* C10: once a Gitter report() has completed its sends, a process started at
\* any later time restores a gate that stays closed for the rest of that
\* cooldown window: the restored last-report time is not older than the one
\* of the completed report.
C10_RestartKeepsWindow ==
    (restarts > 0 /\ prevDelivered # NoTime) =>
        \A r \in Gitters : last[r] >= prevDelivered

\* C11: an error raised by one report() of a fan-out stays in that call:
\* check() is not left by the exception of a report().
C11_ReportErrorConfined ==
    \A p \in checks :
        (\E r \in attached[p] : cpc[p][r] = "raised") => pc[p] # "crashed"

\* report() of reporter r, called by check p, has ended: it returned or raised.
ReportEnded(p, r) == cpc[p][r] \in {"sent", "skipped", "raised"}

\* C12: a Gitter report() that has ended has posted both chat messages, the
\* question first and the message second, or none.
C12_BothOrNeither ==
    \A p \in checks, r \in Gitters :
        ReportEnded(p, r) => posted[p][r] \in {<<>>, <<Question, Literal>>}

\* A report() of the current attempt of p has been created and has not ended.
ReportPending(p, r) == cpc[p][r] \in InFlight \cup {"created"}

\* C13: a failed check creates the report() calls of all attached reporters
\* together, and while one of them has not ended no timer is armed for the
\* next check and done is not set.
C13_RearmAfterFanOut ==
    \A p \in checks :
        /\ pc[p] = "gather" => \A r \in attached[p] : cpc[p][r] # None
        /\ (pc[p] \in {"armed", "stopped"} \/ done[p] \/ timers[p] > 0) =>
              \A r \in Reporters : ~ReportPending(p, r)

\* C13 witness: the timer is armed after the three report() calls of a failed
\* check have all sent.
C13_Witness ==
    \E p \in checks :
        /\ pc[p] = "armed"
        /\ timers[p] = 1
        /\ Cardinality(attached[p]) = 3
        /\ \A r \in attached[p] : cpc[p][r] = "sent"

\* buffer, phase and log are empty.
ParseEmpty(st) == st.body = <<>> /\ st.phase = "" /\ st.log = <<>>

\* C14: every check() attempt of a BinderBuilds begins with buffer, phase and
\* log empty, and they are empty when the next check is scheduled or done is
\* set.
C14_AttemptStartsEmpty ==
    [][\A p \in Probes :
         IsBuilds(p) =>
            /\ (pc[p] # "fetch" /\ pc'[p] = "fetch") => ParseEmpty(parse'[p])
            /\ (pc[p] \in {"fetch", "gather"} /\ pc'[p] \in {"armed", "stopped"})
                  => ParseEmpty(parse'[p])]_vars

\* C14 witness: a BinderBuilds whose earlier attempt failed and was reported
\* has begun a new attempt with empty parse state.
C14_Witness ==
    \E p \in checks :
        /\ IsBuilds(p)
        /\ restarts = 0
        /\ pc[p] = "fetch"
        /\ nchunks[p] = 0
        /\ ParseEmpty(parse[p])
        /\ \E r \in attached[p] : lastPass[r] # NoTime

\* C15: a check() that has ended has, in one-shot mode, set done and armed no
\* timer, and in periodic mode armed one timer and not set done.
C15_SignalOrTimer ==
    \A p \in checks :
        CheckLeft(p) =>
            IF once THEN done[p] /\ timers[p] = 0
            ELSE ~done[p] /\ timers[p] = 1

\* C16: in periodic mode, as long as every answer was good, the check() calls
\* begun are the good answers plus the call in progress, at most one timer is
\* pending, and no report() was called.
C16_SuccessesCountAttempts ==
    \A p \in checks :
        (~once /\ ~streak[p].broken) =>
            /\ streak[p].invoked = 0
            /\ streak[p].started = streak[p].good + running[p]
            /\ running[p] \in {0, 1}
            /\ timers[p] <= 1
            /\ \A r \in Reporters : ninv[p][r] = 0

\* C16 witness: after two good answers in a row the timer of the third check
\* is pending.
C16_Witness ==
    \E p \in checks :
        /\ ~once
        /\ ~streak[p].broken
        /\ streak[p].good = 2
        /\ pc[p] = "armed"

\* C17: a finished GET shows "good" exactly when the target answered with a
\* status < 400; otherwise (status >= 400, or the target could not be
\* reached) it shows the failure the LogIt recorded, and no exception reached
\* the caller of check().
C17_EmbeddingOutcome ==
    \A q \in Requests :
        hpc[q] = "finished" =>
            /\ page[q] # "error"
            /\ page[q] = "good" <=> (~hresp[q].network /\ hresp[q].code < 400)
            /\ page[q] = "bad" =>
                  /\ logit[q].url = WebTarget
                  /\ logit[q].message # <<>>

\* C18: a check has at most one check() in progress or one pending timer,
\* never both, and a chunk is handed to _buffer only during the one check()
\* in progress.
C18_AttemptsNeverOverlap ==
    [][\A p \in Probes :
         /\ running'[p] + timers'[p] <= 1
         /\ running'[p] >= 0 /\ timers'[p] >= 0
         /\ nchunks'[p] > nchunks[p] => (running[p] = 1 /\ timers[p] = 0)]_vars

\* C18 witness: the second attempt of a BinderBuilds is in progress and has
\* received a chunk.
C18_Witness ==
    \E p \in checks :
        /\ IsBuilds(p)
        /\ ~streak[p].broken
        /\ streak[p].started = 2
        /\ running[p] = 1
        /\ timers[p] = 0
        /\ nchunks[p] = 1

\* report() of r, called by p, is left by an exception in this step.
FailStep(p, r) == cpc[p][r] \in InFlight /\ cpc'[p][r] = "raised"

\* C19: the last-report time of a reporter is the time of its latest call
\* that passed the gate; a lookup or send that fails changes neither it nor
\* the state file; and a call less than a cooldown after a call that passed
\* the gate is dropped, whether or not that call delivered anything.
C19_GateNotRolledBack ==
    [][\A p \in Probes, r \in Reporters :
         /\ lastPass'[r] # NoTime => last'[r] = lastPass'[r]
         /\ FailStep(p, r) => (last'[r] = last[r] /\ file' = file)
         /\ (GateStep(p, r) /\ lastPass[r] # NoTime
                /\ now - lastPass[r] < Cooldown) => ~PassStep(p, r)]_vars

\* C19 witness: a Gitter report() passed the gate and failed without posting
\* anything, a later call on the instance was dropped, and the timestamp in
\* the state file is older than the last-report time in memory.
C19_Witness ==
    \E r \in Gitters, p \in Probes, q \in Probes :
        /\ p # q
        /\ cpc[p][r] = "raised"
        /\ posted[p][r] = <<>>
        /\ cpc[q][r] = "skipped"
        /\ prevCall[r] > lastPass[r]
        /\ file.exists /\ file.text # <<>>
        /\ FromIso(file.text) < last[r]

\* The complete frames of a byte string, first to last: the pieces that end
\* at a \n\n delimiter.
RECURSIVE FramesOf(_)
FramesOf(bytes) ==
    IF Find(bytes) = 0 THEN <<>>
    ELSE <<SubSeq(bytes, 1, Find(bytes) - 1)>>
            \o FramesOf(SubSeq(bytes, Find(bytes) + 2, Len(bytes)))

\* The log entry of a data: frame, "<PHASE> <message>".
EntryOf(frame) ==
    LET data == JsonLoads(AfterFirstColon(frame))
    IN  <<Upper(data.phase), " ", data.message>>

\* The log and the phase a sequence of frames amounts to, taken in order and
\* leaving out the frames that do not start with "data:".
RECURSIVE LogOf(_)
LogOf(frames) ==
    IF frames = <<>> THEN <<>>
    ELSE IF StartsWith(Head(frames), DataPrefix)
    THEN EntryOf(Head(frames)) \o LogOf(Tail(frames))
    ELSE LogOf(Tail(frames))

RECURSIVE PhaseOf(_)
PhaseOf(frames) ==
    IF frames = <<>> THEN ""
    ELSE IF StartsWith(frames[Len(frames)], DataPrefix)
    THEN JsonLoads(AfterFirstColon(frames[Len(frames)])).phase
    ELSE PhaseOf(SubSeq(frames, 1, Len(frames) - 1))

\* C20: when a _buffer call has returned normally the buffer holds no \n\n;
\* and when no call raised, log and phase are those of the complete frames of
\* the bytes fed so far, in arrival order, the frames that do not start with
\* "data:" left out.
C20_FramesConsumedInOrder ==
    /\ (fed >= 1 /\ ~whole.raised) =>
          /\ Find(whole.body) = 0
          /\ whole.log = LogOf(FramesOf(stream))
          /\ whole.phase = PhaseOf(FramesOf(stream))
    /\ (fed >= 2 /\ ~split.raised) => Find(split.body) = 0
    /\ (fed = 2 /\ ~split.raised) =>
          /\ split.log = LogOf(FramesOf(SubSeq(stream, 1, cutAt)))
          /\ split.phase = PhaseOf(FramesOf(SubSeq(stream, 1, cutAt)))
    /\ (fed = 3 /\ ~threw) =>
          /\ split.log = LogOf(FramesOf(stream))
          /\ split.phase = PhaseOf(FramesOf(stream))

\* C20 witness: a stream of a frame that does not start with "data:" and a
\* "ready" frame, cut inside the delimiter of the first, has been fed both
\* ways; only the "ready" frame is in the log.
C20_Witness ==
    /\ fed = 3
    /\ ~threw
    /\ Len(FramesOf(stream)) = 2
    /\ FramesOf(stream)[1] = <<"x">>
    /\ cutAt = 2
    /\ split.log = <<"READY", " ", "ok">>
    /\ split.body = <<>>

====
